---- MODULE Spec2Model ----
(***************************************************************************)
(* Model of the document-ingestion pipeline, the idempotency manifest, the *)
(* ingestion polling loop and the chat session handling of the three       *)
(* Streamlit scripts of the repository:                                    *)
(*   "Auto"    ChatBot_S3_Textract_Bedrock_RAG_Auto.py (indirect ingestion)*)
(*   "latest"  latest.py                               (direct ingestion)  *)
(*   "secrets" chatbot_with_secrets_latest.py          (chat only)         *)
(* The external services (S3, Textract, Bedrock) are nondeterministic:     *)
(* every call may return any of the outcomes its caller distinguishes.     *)
(***************************************************************************)
EXTENDS Integers, Sequences, FiniteSets, TLC

\* ---------------------------------------------------------------- bounds
MaxBatch == 2          \* files selected in the uploader at once
MaxPasses == 1         \* executions of the upload block in this session
MaxTurns == 3          \* chat turns of one conversation
MaxReruns == 1         \* re-executions of the script with the same selection

\* ------------------------------------------------------ program constants
PDF_LIMIT == 5 * 1024 * 1024
IMG_LIMIT == 10 * 1024 * 1024
SLEEP == 5
timeout == 600

ALLOWED_EXTENSIONS == {".pdf", ".jpeg", ".jpg", ".png", ".tiff", ".tif"}
IMAGE_EXTENSIONS == {".jpeg", ".jpg", ".png", ".tiff", ".tif"}

UploadVariants == {"Auto", "latest"}

\* str.lower() on the extensions the model uses
lower(ext) ==
    CASE ext = ".PNG" -> ".png"
      [] ext = ".PDF" -> ".pdf"
      [] OTHER -> ext

\* A file name is kept split at its last dot, as os.path.splitext sees it.
splitext(name) == <<name.base, name.ext>>

\* names the uploader lets through: st.file_uploader(type=[...]) admits the
\* extensions in any letter case; latest.py admits PDF only
FileNames(v) ==
    IF v = "Auto"
    THEN {[base |-> "a", ext |-> ".pdf"], [base |-> "b", ext |-> ".PNG"]}
    ELSE {[base |-> "a", ext |-> ".pdf"], [base |-> "b", ext |-> ".pdf"]}

\* len(file_bytes): the empty file and the sizes around the ceilings of the
\* types the script's uploader admits
Sizes(v) ==
    IF v = "Auto"
    THEN {0, PDF_LIMIT, PDF_LIMIT + 1, IMG_LIMIT, IMG_LIMIT + 1}
    ELSE {0, PDF_LIMIT, PDF_LIMIT + 1}

\* no bytes of the file have been read
Unread == -1

\* the selections of the uploader: one to MaxBatch files, names may repeat
Batches(v) == UNION {[1..n -> FileNames(v)] : n \in 1..MaxBatch}

\* ------------------------------------------------- manifest serialisation
NL == [kind |-> "nl"]

json_dumps(entry) == [kind |-> "line", json |-> entry]

json_loads(line) == line.json

\* "\n".join(lines)
RECURSIVE join(_)
join(lines) ==
    IF Len(lines) = 0 THEN <<>>
    ELSE IF Len(lines) = 1 THEN <<lines[1]>>
    ELSE <<lines[1], NL>> \o join(Tail(lines))

\* str.splitlines(): cut at every newline, no empty last line
RECURSIVE splitlines(_)
splitlines(body) ==
    IF Len(body) = 0 THEN <<>>
    ELSE IF body[1] = NL THEN splitlines(Tail(body))
    ELSE <<body[1]>> \o splitlines(Tail(body))

serialize(entries) ==
    join([i \in 1..Len(entries) |-> json_dumps(entries[i])])

parse(body) ==
    LET lines == splitlines(body)
    IN [i \in 1..Len(lines) |-> json_loads(lines[i])]

\* str(time.time())
str(t) == ToString(t)

\* ------------------------------------------------------------- variables
VARIABLES
    variant,          \* which of the three scripts runs
    stored,           \* the manifest object in S3: [exists, body]
    now,              \* time.time(), in coarse ticks
    passes,           \* upload passes started so far
    pc,               \* position of the upload block
    uploaded_files,   \* the files selected in the uploader
    idx,              \* position of the upload loop in uploaded_files
    file_bytes,       \* len of the bytes read from the file of Subject
    notices,          \* messages of this pass that belong to no file
    manifest,         \* the manifest loaded for this pass (list or name set)
    text,             \* extracted text of the current file
    calls,            \* service calls made so far for the file of Subject
    report,           \* messages shown so far for the file of Subject
    loaded,           \* filenames of the manifest as loaded at pass start
    loadOut,          \* outcome of the get_object of the pass-start load
    failedBefore,     \* failed in the run before: [i: position, size: bytes]
    reruns,           \* re-executions of the script with the same selection
    observed,         \* what the submission of the file of Subject ended in
    lastRecord,       \* the record() call made for the file of Subject
    pollPc,           \* position of the polling function
    script,           \* what the service will answer to the status requests
    polls,            \* status requests issued by the current polling call
    elapsed,          \* time.time() - start
    status,           \* status of the latest status request
    result,           \* return value of the polling function
    pollMsgs,         \* st.error messages of the polling function
    session_id,       \* st.session_state.session_id
    messages,         \* st.session_state.messages
    prevTurn,         \* the chat turn before the latest one
    lastTurn,         \* the latest chat turn: request and outcome
    issued,           \* session ids the service returned in this conversation
    writers           \* two sessions recording into the same manifest

uploadVars == <<stored, now, passes, pc, uploaded_files, idx, file_bytes,
                notices, manifest, text,
                calls, report, loaded, observed, lastRecord,
                loadOut, failedBefore, reruns>>
pollVars == <<pollPc, script, polls, elapsed, status, result, pollMsgs>>
chatVars == <<session_id, messages, prevTurn, lastTurn, issued>>
raceVars == << writers >>
vars == <<variant, uploadVars, pollVars, chatVars, raceVars>>

\* --------------------------------------------------------------- S3 store
NoObject == [exists |-> FALSE, body |-> <<>>]

\* outcomes of s3.get_object on the manifest key
GetOutcomes(st) == IF st.exists THEN {"ok", "error"} ELSE {"NoSuchKey", "error"}

\* outcomes of s3.put_object
PutOutcomes == {"ok", "error"}

\* variant of download_manifest that reports the missing object as an error
download_manifest_reports_missing(st, getOut) ==
    CASE getOut = "ok" -> [manifest |-> parse(st.body), err |-> <<>>]
      [] getOut = "NoSuchKey" ->
           [manifest |-> <<>>, err |-> <<"manifest_download_error">>]
      [] OTHER -> [manifest |-> <<>>, err |-> <<"manifest_download_error">>]

\* Auto 47-60, latest 39-50. "error" is any failure of the retrieval or of
\* the parsing other than NoSuchKey; both except branches report and return
\* the empty list.
download_manifest(st, getOut) ==
    CASE getOut = "ok" -> [manifest |-> parse(st.body), err |-> <<>>]
      [] getOut = "NoSuchKey" -> [manifest |-> <<>>, err |-> <<>>]
      [] OTHER -> [manifest |-> <<>>, err |-> <<"manifest_download_error">>]

\* variant of upload_manifest that adds the last entry to what the store
\* holds at the time of the write
upload_manifest_merges(st, m, putOut) ==
    IF putOut = "ok"
    THEN [store |-> [exists |-> TRUE,
                     body |-> serialize(parse(st.body) \o <<m[Len(m)]>>)],
          err |-> <<>>]
    ELSE [store |-> st, err |-> <<"manifest_upload_error">>]

\* Auto: upload_manifest(manifest)
upload_manifest(st, m, putOut) ==
    IF putOut = "ok"
    THEN [store |-> [exists |-> TRUE, body |-> serialize(m)], err |-> <<>>]
    ELSE [store |-> st, err |-> <<"manifest_upload_error">>]

\* variant of is_in_manifest that never finds the filename
is_in_manifest_never(filename, m) == FALSE

is_in_manifest(filename, m) ==
    \E i \in 1..Len(m) : m[i].filename = filename

s3_key_for_txt(filename) == [base |-> splitext(filename)[1], ext |-> ".txt"]

AutoEntry(filename) ==
    [filename |-> filename, txt_s3_uri |-> s3_key_for_txt(filename),
     ingested |-> TRUE]

\* Auto: add_to_manifest(filename, txt_s3_uri, manifest)
add_to_manifest(st, filename, m, putOut) ==
    LET m2 == Append(m, AutoEntry(filename))
        up == upload_manifest(st, m2, putOut)
    IN [manifest |-> m2, store |-> up.store, err |-> up.err]

LatestEntry(filename, t) ==
    [filename |-> filename, ingested_at |-> str(t), status |-> "INGESTED"]

\* latest 55-66: update_manifest after its download returned dl; the store
\* st is the one the put_object call meets
update_store(st, dl, filename, t, putOut) ==
    LET m2 == Append(dl.manifest, LatestEntry(filename, t))
    IN IF putOut = "ok"
       THEN [store |-> [exists |-> TRUE, body |-> serialize(m2)],
             err |-> dl.err]
       ELSE [store |-> st, err |-> dl.err \o <<"manifest_update_error">>]

\* latest: update_manifest(filename)
update_manifest(st, filename, t, getOut, putOut) ==
    update_store(st, download_manifest(st, getOut), filename, t, putOut)

\* the filenames of a manifest (latest.py line 182)
manifest_names(m) == {m[i].filename : i \in 1..Len(m)}

\* ---------------------------------------------------------------- polling
SuccessStatuses(v) == IF v = "Auto" THEN {"COMPLETED", "COMPLETE"} ELSE {"INGESTED"}

\* variant of FailureStatuses that misses the second failure status
FailureStatuses_first_only(v) == {"FAILED"}

FailureStatuses(v) == IF v = "Auto" THEN {"FAILED", "STOPPED"} ELSE {"FAILED", "DELETED"}

\* statuses the service reports while the job or document is in progress
NonTerminal(v) == IF v = "Auto" THEN {"RUNNING", "IN_PROGRESS"} ELSE {"PENDING", "IN_PROGRESS"}

\* the polling function catches an error of the status request
wait_catches(v) == v \in {"Auto", "latest"}

\* variant of PollStep that tests the deadline before the status
PollStep_deadline_first(v, reply, el) ==
    CASE reply = "raise" ->
           IF wait_catches(v)
           THEN [done |-> TRUE, escaped |-> FALSE, result |-> FALSE,
                 msgs |-> <<"status_error">>]
           ELSE [done |-> TRUE, escaped |-> TRUE, result |-> FALSE, msgs |-> <<>>]
      [] reply # "raise" /\ reply \in SuccessStatuses(v) /\ el <= timeout ->
           [done |-> TRUE, escaped |-> FALSE, result |-> TRUE, msgs |-> <<>>]
      [] reply # "raise" /\ reply \in FailureStatuses(v) /\ el <= timeout ->
           [done |-> TRUE, escaped |-> FALSE, result |-> FALSE,
            msgs |-> IF v = "Auto" THEN <<"job_failed_or_stopped">> ELSE <<>>]
      [] OTHER ->
           IF el > timeout
           THEN [done |-> TRUE, escaped |-> FALSE, result |-> FALSE,
                 msgs |-> IF v = "Auto" THEN <<"job_timed_out">> ELSE <<>>]
           ELSE [done |-> FALSE, escaped |-> FALSE, result |-> FALSE, msgs |-> <<>>]

\* variant of PollStep whose deadline test is >= instead of >
PollStep_deadline_ge(v, reply, el) ==
    CASE reply = "raise" ->
           IF wait_catches(v)
           THEN [done |-> TRUE, escaped |-> FALSE, result |-> FALSE,
                 msgs |-> <<"status_error">>]
           ELSE [done |-> TRUE, escaped |-> TRUE, result |-> FALSE, msgs |-> <<>>]
      [] reply # "raise" /\ reply \in SuccessStatuses(v) ->
           [done |-> TRUE, escaped |-> FALSE, result |-> TRUE, msgs |-> <<>>]
      [] reply # "raise" /\ reply \in FailureStatuses(v) ->
           [done |-> TRUE, escaped |-> FALSE, result |-> FALSE,
            msgs |-> IF v = "Auto" THEN <<"job_failed_or_stopped">> ELSE <<>>]
      [] OTHER ->
           IF el >= timeout
           THEN [done |-> TRUE, escaped |-> FALSE, result |-> FALSE,
                 msgs |-> IF v = "Auto" THEN <<"job_timed_out">> ELSE <<>>]
           ELSE [done |-> FALSE, escaped |-> FALSE, result |-> FALSE, msgs |-> <<>>]

\* One iteration of the polling loop, after the status request answered
\* reply (a status, or "raise") at elapsed time el.
PollStep(v, reply, el) ==
    CASE reply = "raise" ->
           IF wait_catches(v)
           THEN [done |-> TRUE, escaped |-> FALSE, result |-> FALSE,
                 msgs |-> <<"status_error">>]
           ELSE [done |-> TRUE, escaped |-> TRUE, result |-> FALSE, msgs |-> <<>>]
      [] reply # "raise" /\ reply \in SuccessStatuses(v) ->
           [done |-> TRUE, escaped |-> FALSE, result |-> TRUE, msgs |-> <<>>]
      [] reply # "raise" /\ reply \in FailureStatuses(v) ->
           [done |-> TRUE, escaped |-> FALSE, result |-> FALSE,
            msgs |-> IF v = "Auto" THEN <<"job_failed_or_stopped">> ELSE <<>>]
      [] OTHER ->
           IF el > timeout
           THEN [done |-> TRUE, escaped |-> FALSE, result |-> FALSE,
                 msgs |-> IF v = "Auto" THEN <<"job_timed_out">> ELSE <<>>]
           ELSE [done |-> FALSE, escaped |-> FALSE, result |-> FALSE, msgs |-> <<>>]

\* A service script: in-progress statuses on the requests before the k-th,
\* and t (a terminal status, or an error of the request) on the k-th.
LastPoll == timeout \div SLEEP + 2

\* what the service can answer on the k-th request: a terminal status of the
\* job (get_ingestion_job) or document (get_knowledge_base_document), or an
\* error of the request
ScriptEnds(v) ==
    IF v = "Auto"
    THEN {"COMPLETED", "COMPLETE", "FAILED", "STOPPED", "raise"}
    ELSE {"INGESTED", "FAILED", "DELETED", "raise"}

Scripts(v, ks) == {[k |-> k, t |-> t] : k \in ks, t \in ScriptEnds(v)}

ServiceReplies(v, sc, n) ==
    IF n = sc.k THEN {sc.t} ELSE NonTerminal(v)

\* The whole polling call against a script: result, polls made, messages
\* and the answer to the last status request.
RECURSIVE PollRun(_, _, _, _)
PollRun(v, sc, n, el) ==
    LET reply == CHOOSE x \in ServiceReplies(v, sc, n) : TRUE
        r == PollStep(v, reply, el)
    IN IF r.done
       THEN [result |-> r.result, escaped |-> r.escaped, polls |-> n,
             msgs |-> r.msgs, status |-> reply]
       ELSE PollRun(v, sc, n + 1, el + SLEEP)

wait_for_ingestion(v, sc) == PollRun(v, sc, 1, 0)

\* ------------------------------------------------------------ upload block
NoName == [base |-> "", ext |-> ""]

NoRecord == [path |-> "none", filename |-> NoName, getOut |-> "none",
             putOut |-> "none"]

NoCalls == [ocr |-> 0, save |-> 0, start |-> 0, create |-> 0, poll |-> 0,
            record |-> 0, put |-> 0]

NoScript == [k |-> 0, t |-> "none"]

\* the service scripts the upload block's polling call is run against: a
\* terminal answer on the first request, or none before the deadline
WaitScripts(v) == Scripts(v, {1}) \cup {[k |-> LastPoll + 1, t |-> "raise"]}

\* what the polling call can return to the upload block, per script
WaitOutcomes ==
    [v \in UploadVariants |->
       {wait_for_ingestion(v, sc) : sc \in WaitScripts(v)}]

OcrOutcomes == {"text", "empty", "error"}
CallOutcomes == {"ok", "error"}
CreateOutcomes == {"ok", "conflict", "error"}

\* the file the loop is working on
File == [name |-> uploaded_files[idx], size |-> file_bytes]

\* The file whose processing calls, report, observed and lastRecord
\* describe: the file the loop is working on, or, at the loop head and after
\* the loop, the file it has just finished (0: none yet in this pass).
Subject == IF pc \in {"check", "idle"} THEN idx - 1 ELSE idx

Finished == pc \in {"check", "idle"} /\ idx > 1

Say(msgs) == report' = report \o msgs

Count(field, n) == calls' = [calls EXCEPT ![field] = @ + n]

\* variant of NextFile in which the end of a file's iteration ends the pass
NextFile_ends_pass ==
    /\ idx' = idx + 1
    /\ pc' = "idle"

\* "continue" / return to the loop head: the next file, or the end of the pass
NextFile ==
    /\ idx' = idx + 1
    /\ pc' = IF idx + 1 > Len(uploaded_files) THEN "idle" ELSE "check"

PollIdle ==
    /\ pollPc = "off"
    /\ UNCHANGED pollVars

ChatIdle == UNCHANGED chatVars

\* no other session is writing the manifest
WritersIdle == UNCHANGED raceVars

\* what the start of a pass set is kept while the files are processed
PassKept == UNCHANGED <<loadOut, failedBefore, reruns>>

\* The manifest object outlives the browser session: at start it is absent
\* (first run) or holds what an earlier session recorded for one file.
InitialStores(v) ==
    {NoObject,
     [exists |-> TRUE,
      body |-> serialize(<<IF v = "Auto"
                           THEN AutoEntry([base |-> "a", ext |-> ".pdf"])
                           ELSE LatestEntry([base |-> "a", ext |-> ".pdf"], 0)>>)]}

\* --------------------------------------------------------- chat constants
None == "None"

\* the request carries no sessionId parameter
Absent == "absent"

\* session ids the generation service issues
ServiceSessions == {"A", "B"}

\* Auto 192, latest 169 (str(uuid.uuid4())), secrets 108
InitialSession(v) ==
    CASE v = "Auto" -> None
      [] v = "latest" -> "uuid4"
      [] OTHER -> ""

NoTurn == [req |-> "none", outcome |-> "none", returned |-> "none"]

\* ------------------------------------------------------ concurrent writers
Writers == {"w1", "w2"}

\* a session before it loads the manifest
IdleWriter == [pc |-> "idle", filename |-> NoName, held |-> <<>>,
               getOut |-> "none", putOut |-> "none", sawOther |-> FALSE,
               order |-> 0]

\* the state after the script's first lines, for any of the scripts
Start ==
    /\ stored \in InitialStores(variant)
    /\ now = 0
    /\ passes = 0
    /\ pc = "idle"
    /\ uploaded_files = <<>>
    /\ idx = 1
    /\ file_bytes = Unread
    /\ notices = <<>>
    /\ manifest = IF variant = "Auto" THEN <<>> ELSE {}
    /\ text = ""
    /\ calls = NoCalls
    /\ report = <<>>
    /\ loaded = {}
    /\ observed = "none"
    /\ lastRecord = NoRecord
    /\ pollPc = "off"
    /\ script = NoScript
    /\ polls = 0
    /\ elapsed = 0
    /\ status = "none"
    /\ result = FALSE
    /\ pollMsgs = <<>>
    /\ session_id = InitialSession(variant)
    /\ messages = <<>>
    /\ prevTurn = NoTurn
    /\ lastTurn = NoTurn
    /\ loadOut = "none"
    /\ failedBefore = {}
    /\ reruns = 0
    /\ issued = {}
    /\ writers = [w \in Writers |-> IdleWriter]

Init ==
    /\ variant \in UploadVariants
    /\ Start

\* Auto 201-202, latest 181-182: the upload block starts with a non-empty
\* selection and loads the manifest once.
StartPass ==
    /\ pc \in {"idle", "crashed"}
    /\ passes < MaxPasses
    /\ \E batch \in Batches(variant), getOut \in GetOutcomes(stored) :
         LET dl == download_manifest(stored, getOut)
         IN /\ uploaded_files' = batch
            /\ manifest' = IF variant = "Auto" THEN dl.manifest
                           ELSE manifest_names(dl.manifest)
            /\ loaded' = manifest_names(dl.manifest)
            /\ loadOut' = getOut
            /\ notices' = dl.err
    /\ failedBefore' = {}
    /\ calls' = NoCalls
    /\ report' = <<>>
    /\ observed' = "none"
    /\ file_bytes' = Unread
    /\ lastRecord' = NoRecord
    /\ passes' = passes + 1
    /\ now' = now + 1
    /\ idx' = 1
    /\ pc' = "check"
    /\ text' = ""
    /\ UNCHANGED <<variant, stored>>
    /\ UNCHANGED reruns
    /\ PollIdle /\ ChatIdle /\ WritersIdle

\* Auto 204-224: extension check, manifest check, pre-validation
validate(file, m) ==
    LET ext == lower(splitext(file.name)[2])
    IN CASE ext \notin ALLOWED_EXTENSIONS -> "unsupported"
         [] ext \in ALLOWED_EXTENSIONS /\ is_in_manifest(file.name, m) -> "already"
         [] ext \in ALLOWED_EXTENSIONS /\ ~is_in_manifest(file.name, m)
            /\ file.size = 0 -> "empty"
         [] ext \in ALLOWED_EXTENSIONS /\ ~is_in_manifest(file.name, m)
            /\ file.size # 0 /\ ext = ".pdf" /\ file.size > PDF_LIMIT -> "pdf_too_large"
         [] ext \in ALLOWED_EXTENSIONS /\ ~is_in_manifest(file.name, m)
            /\ file.size # 0 /\ ext \in IMAGE_EXTENSIONS /\ file.size > IMG_LIMIT
              -> "image_too_large"
         [] OTHER -> "ok"

\* latest 184-187: only the manifest check precedes process_and_ingest
precheck(file, names) ==
    IF file.name \in names THEN "already" ELSE "ok"

\* len of the bytes of the i-th selected file: a file that was read in the
\* run before has the bytes it had then
SizesOf(i) ==
    IF \E f \in failedBefore : f.i = i /\ f.size # Unread
    THEN {f.size : f \in {g \in failedBefore : g.i = i}}
    ELSE Sizes(variant)

\* Auto reads the file (213) once the extension and manifest checks passed;
\* latest reads it in process_and_ingest (74)
CheckFile ==
    /\ pc = "check"
    /\ \E size \in SizesOf(idx) :
         LET file == [name |-> uploaded_files[idx], size |-> size]
             outcome == IF variant = "Auto" THEN validate(file, manifest)
                        ELSE precheck(file, manifest)
         IN /\ file_bytes' = IF variant = "Auto"
                                 /\ outcome \notin {"unsupported", "already"}
                              THEN size ELSE Unread
            /\ IF outcome = "ok"
               THEN /\ pc' = "ocr"
                    /\ report' = <<>>
                    /\ UNCHANGED idx
               ELSE /\ report' = << outcome >>
                    /\ NextFile
    /\ calls' = NoCalls
    /\ observed' = "none"
    /\ lastRecord' = NoRecord
    /\ UNCHANGED <<variant, stored, now, passes, uploaded_files, notices,
                   manifest, text, loaded>>
    /\ PassKept /\ PollIdle /\ ChatIdle /\ WritersIdle

\* variant of ocr_failed that stops only at an error of the OCR call
ocr_failed_error_only(v, out) == out = "error"

\* Auto 233 (`if not text`: an error or empty text), latest 81-83 (an error)
ocr_failed(v, out) ==
    IF v = "Auto" THEN out # "text" ELSE out = "error"

\* Auto 96-108 and 230-238, latest 70-83: textract.analyze_document
RunOcr ==
    /\ pc = "ocr"
    /\ Count("ocr", 1)
    /\ IF variant = "Auto" THEN UNCHANGED file_bytes
       ELSE file_bytes' \in SizesOf(idx)
    /\ \E out \in OcrOutcomes :
         LET extracted == IF out = "text" THEN "T" ELSE ""
         IN IF ocr_failed(variant, out)
            THEN /\ Say(IF out = "error" /\ variant = "Auto"
                        THEN <<"textract_error", "ocr_failed">>
                        ELSE <<"ocr_failed">>)
                 /\ NextFile
                 /\ text' = ""
            ELSE /\ text' = extracted
                 /\ pc' = IF variant = "Auto" THEN "save" ELSE "create"
                 /\ UNCHANGED <<idx, report>>
    /\ UNCHANGED <<variant, stored, now, passes, uploaded_files, notices,
                   manifest, loaded, observed, lastRecord>>
    /\ PassKept /\ PollIdle /\ ChatIdle /\ WritersIdle

\* Auto 86-94 and 241-244: save_txt_to_s3
SaveText ==
    /\ pc = "save"
    /\ variant = "Auto"
    /\ Count("save", 1)
    /\ \E out \in CallOutcomes :
         IF out = "ok"
         THEN /\ Say(<<"text_saved">>)
              /\ pc' = "start"
              /\ UNCHANGED idx
         ELSE /\ Say(<<"save_error">>)
              /\ NextFile
    /\ UNCHANGED <<variant, stored, now, passes, uploaded_files, file_bytes,
                   notices, manifest, text, loaded, observed, lastRecord>>
    /\ PassKept /\ PollIdle /\ ChatIdle /\ WritersIdle

\* Auto 110-121 and 252-254: start_bedrock_kb_ingestion
StartJob ==
    /\ pc = "start"
    /\ variant = "Auto"
    /\ Count("start", 1)
    /\ \E out \in CallOutcomes :
         IF out = "ok"
         THEN /\ pc' = "wait"
              /\ UNCHANGED <<idx, report>>
         ELSE /\ Say(<<"start_error">>)
              /\ NextFile
    /\ UNCHANGED <<variant, stored, now, passes, uploaded_files, file_bytes,
                   notices, manifest, text, loaded, observed, lastRecord>>
    /\ PassKept /\ PollIdle /\ ChatIdle /\ WritersIdle

\* variant of create_branch in which the conflict is one more rejection
create_branch_conflict_fails(out) ==
    CASE out = "ok" -> "wait"
      [] OTHER -> "failed"

\* latest 100-114: where process_and_ingest goes after the create call
create_branch(out) ==
    CASE out = "ok" -> "wait"
      [] out = "conflict" -> "record"
      [] OTHER -> "failed"

\* latest 86-102 and 108-114: create_knowledge_base_document
CreateDocument ==
    /\ pc = "create"
    /\ variant = "latest"
    /\ Count("create", 1)
    /\ \E out \in CreateOutcomes :
         /\ observed' = CASE out = "ok" -> "submitted"
                           [] out = "conflict" -> "conflict"
                           [] OTHER -> "rejected"
         /\ LET branch == create_branch(out)
            IN CASE branch = "wait" ->
                      /\ pc' = "wait"
                      /\ UNCHANGED <<idx, report>>
                 [] branch = "record" ->
                      /\ Say(<<"already_exists">>)
                      /\ pc' = "record_conflict"
                      /\ UNCHANGED idx
                 [] OTHER ->
                      /\ Say(<<"ingestion_failed">>)
                      /\ NextFile
    /\ UNCHANGED <<variant, stored, now, passes, uploaded_files, file_bytes,
                   notices, manifest, text, loaded, lastRecord>>
    /\ PassKept /\ PollIdle /\ ChatIdle /\ WritersIdle

\* variant of wait_branch that falls through to record() after a failure
wait_branch_no_return(v, r) ==
    CASE r.escaped /\ v = "Auto" -> "crash"
      [] r.escaped /\ v # "Auto" -> "caught"
      [] OTHER -> "record"

\* Auto 255-260, latest 103-107 and 112-114: where the caller goes with the
\* polling call's outcome r
wait_branch(v, r) ==
    CASE r.escaped /\ v = "Auto" -> "crash"
      [] r.escaped /\ v # "Auto" -> "caught"
      [] ~r.escaped /\ r.result -> "record"
      [] OTHER -> "failed"

\* Auto 255-261, latest 103-105 and 112-114: the polling call and the branch
\* on its result
WaitForIngestion ==
    /\ pc = "wait"
    /\ \E r \in WaitOutcomes[variant] :
            /\ Count("poll", r.polls)
            /\ observed' = CASE r.escaped -> "raised"
                              [] ~r.escaped /\ r.result -> "success"
                              [] ~r.escaped /\ ~r.result /\ r.status = "raise"
                                   -> "status_error"
                              [] ~r.escaped /\ ~r.result
                                 /\ r.status \in NonTerminal(variant)
                                   -> "timeout"
                              [] OTHER -> "failed_status"
            /\ LET branch == wait_branch(variant, r)
               IN CASE branch = "crash" ->
                         /\ pc' = "crashed"
                         /\ UNCHANGED <<idx, report>>
                    [] branch = "caught" ->
                         /\ Say(<<"ingestion_failed">>)
                         /\ NextFile
                    [] branch = "record" ->
                         /\ Say(r.msgs)
                         /\ pc' = "record"
                         /\ UNCHANGED idx
                    [] OTHER ->
                         /\ Say(r.msgs \o <<"ingestion_failed_or_timed_out">>)
                         /\ NextFile
    /\ UNCHANGED <<variant, stored, now, passes, uploaded_files, file_bytes,
                   notices, manifest, text, loaded, lastRecord>>
    /\ PassKept /\ PollIdle /\ ChatIdle /\ WritersIdle

\* Auto 73-75 and 257-258, latest 52-66, 106-107 and 110-111: record() and
\* the success message
RecordIngested ==
    /\ pc \in {"record", "record_conflict"}
    /\ \E getOut \in GetOutcomes(stored), putOut \in PutOutcomes :
         /\ IF variant = "Auto"
            THEN LET a == add_to_manifest(stored, File.name, manifest, putOut)
                 IN /\ manifest' = a.manifest
                    /\ stored' = a.store
                    /\ Say(a.err \o <<"success">>)
            ELSE LET u == update_manifest(stored, File.name, now, getOut, putOut)
                 IN /\ manifest' = manifest
                    /\ stored' = u.store
                    /\ Say(u.err \o <<"success">>)
         /\ lastRecord' = [path |-> IF pc = "record" THEN "normal" ELSE "conflict",
                           filename |-> File.name,
                           getOut |-> IF variant = "Auto" THEN "none" ELSE getOut,
                           putOut |-> putOut]
    /\ calls' = [calls EXCEPT !["record"] = @ + 1, !["put"] = @ + 1]
    /\ NextFile
    /\ UNCHANGED <<variant, now, passes, uploaded_files, file_bytes, notices,
                   text, loaded, observed>>
    /\ PassKept /\ PollIdle /\ ChatIdle /\ WritersIdle

Next ==
    \/ StartPass
    \/ CheckFile
    \/ RunOcr
    \/ SaveText
    \/ StartJob
    \/ CreateDocument
    \/ WaitForIngestion
    \/ RecordIngested

Spec == Init /\ [][Next]_vars

\* ------------------------------------------- re-execution of the script
\* why the pipeline of the file of Subject ended without a record() call
FailureCause ==
    IF ~Finished \/ calls.record > 0 \/ observed = "conflict"
       \/ report = <<"already">>
    THEN "none"
    ELSE IF calls.ocr = 0 THEN "validation"
    ELSE IF calls.save + calls.create = 0 THEN "ocr"
    ELSE IF variant = "Auto" /\ calls.start = 0 THEN "save"
    ELSE IF calls.poll = 0 THEN "submission"
    ELSE observed

\* Streamlit runs the script from its first line again on every widget
\* event. A chat input (Auto 270, latest 197) re-executes it while the
\* uploader still returns the same files, so the upload block (Auto 201-261,
\* latest 181-188) runs again over the same selection before the chat
\* handler is reached.
RerunPass ==
    /\ pc = "idle"
    /\ passes > 0
    /\ uploaded_files # <<>>
    /\ reruns < MaxReruns
    /\ \E getOut \in GetOutcomes(stored) :
         LET dl == download_manifest(stored, getOut)
         IN /\ manifest' = IF variant = "Auto" THEN dl.manifest
                           ELSE manifest_names(dl.manifest)
            /\ loaded' = manifest_names(dl.manifest)
            /\ loadOut' = getOut
            /\ notices' = dl.err
    /\ failedBefore' = IF FailureCause # "none"
                       THEN {[i |-> Subject, size |-> file_bytes]} ELSE {}
    /\ reruns' = reruns + 1
    /\ calls' = NoCalls
    /\ report' = <<>>
    /\ observed' = "none"
    /\ file_bytes' = Unread
    /\ lastRecord' = NoRecord
    /\ now' = now + 1
    /\ idx' = 1
    /\ pc' = "check"
    /\ text' = ""
    /\ UNCHANGED <<variant, stored, passes, uploaded_files>>
    /\ PollIdle /\ ChatIdle /\ WritersIdle

NextRerun ==
    \/ Next
    \/ RerunPass

SpecRerun == Init /\ [][NextRerun]_vars

\* ------------------------------------------------------- polling, stepwise
\* Auto 123-125, latest 116-117: the polling call starts its clock
StartPolling ==
    /\ pollPc = "off"
    /\ \E sc \in Scripts(variant, 1..(LastPoll + 1)) : script' = sc
    /\ pollPc' = "polling"
    /\ polls' = 0
    /\ elapsed' = 0
    /\ UNCHANGED <<status, result, pollMsgs>>
    /\ UNCHANGED <<variant, uploadVars, chatVars, raceVars>>

\* Auto 127-143, latest 119-135: one status request and the checks after it;
\* time.sleep(5) advances the clock before the next request
PollOnce ==
    /\ pollPc = "polling"
    /\ \E reply \in ServiceReplies(variant, script, polls + 1) :
         LET r == PollStep(variant, reply, elapsed)
         IN /\ status' = reply
            /\ polls' = polls + 1
            /\ IF r.done
               THEN /\ pollPc' = IF r.escaped THEN "raised" ELSE "returned"
                    /\ result' = r.result
                    /\ pollMsgs' = r.msgs
                    /\ elapsed' = elapsed
               ELSE /\ elapsed' = elapsed + SLEEP
                    /\ UNCHANGED <<pollPc, result, pollMsgs>>
    /\ UNCHANGED script
    /\ UNCHANGED <<variant, uploadVars, chatVars, raceVars>>

NextPoll ==
    \/ StartPolling
    \/ PollOnce

SpecPoll == Init /\ [][NextPoll]_vars

\* the polling loop is sequential code: it keeps running until it returns
SpecPollFair == SpecPoll /\ WF_vars(NextPoll)

\* -------------------------------------------------------------- chat turns
ChatVariants == {"Auto", "latest", "secrets"}

UserInputs == {"q"}

\* the sessionId the request carries: Auto 173-174, latest 158, secrets 92-93
request_session(v, sid) ==
    IF v = "latest" THEN sid
    ELSE IF sid \notin {None, ""} THEN sid ELSE Absent

\* What the generation service can answer to a request: generated text with
\* a sessionId (or without one), the "Session with Id ... is not valid" error
\* for a request that carried an id, or another error.
ServiceAnswers(req) ==
    {[outcome |-> "ok", returned |-> r] : r \in ServiceSessions \cup {Absent}}
      \cup {[outcome |-> "other_error", returned |-> Absent]}
      \cup (IF req # Absent
            THEN {[outcome |-> "session_invalid", returned |-> Absent]}
            ELSE {})

\* variant of get_rag_response that drops the session id on every error
get_rag_response_drops_session(v, sid, ans) ==
    CASE ans.outcome = "ok" ->
           [text |-> "answer",
            sid |-> IF ans.returned # Absent THEN ans.returned
                    ELSE CASE v = "Auto" -> None
                           [] v = "latest" -> sid
                           [] OTHER -> ""]
      [] ans.outcome = "session_invalid" /\ v = "Auto" ->
           [text |-> "session_expired", sid |-> None]
      [] OTHER ->
           [text |-> IF v = "secrets" THEN "sorry_error" ELSE "consult_physician",
            sid |-> IF v = "Auto" THEN None ELSE ""]

\* get_rag_response: Auto 148-184, latest 138-163, secrets 66-99.
\* The result is the pair (response text, session id) handed to the caller.
get_rag_response(v, sid, ans) ==
    CASE ans.outcome = "ok" ->
           [text |-> "answer",
            sid |-> IF ans.returned # Absent THEN ans.returned
                    ELSE CASE v = "Auto" -> None
                           [] v = "latest" -> sid
                           [] OTHER -> ""]
      [] ans.outcome = "session_invalid" /\ v = "Auto" ->
           [text |-> "session_expired", sid |-> None]
      [] OTHER ->
           [text |-> IF v = "secrets" THEN "sorry_error" ELSE "consult_physician",
            sid |-> sid]

\* the turn handler's update of st.session_state.session_id:
\* Auto 275-279, latest 204, secrets 123
adopt_session(v, new_sid) ==
    IF v = "Auto"
    THEN (IF new_sid \notin {None, ""} THEN new_sid ELSE None)
    ELSE new_sid

\* variant of extend that keeps the assistant's answer only
extend_answer_only(msgs, user_input, response) ==
    msgs \o <<[role |-> "assistant", content |-> response]>>

\* st.session_state.messages.extend([...]): Auto 284-287, latest 209-212,
\* secrets 129-132
extend(msgs, user_input, response) ==
    msgs \o <<[role |-> "user", content |-> user_input],
              [role |-> "assistant", content |-> response]>>

InitChat ==
    /\ variant \in ChatVariants
    /\ Start

\* Auto 270-287, latest 197-212, secrets 116-132
ChatTurn ==
    /\ Len(messages) < 2 * MaxTurns
    /\ \E user_input \in UserInputs :
         LET req == request_session(variant, session_id)
         IN \E ans \in ServiceAnswers(req) :
              LET r == get_rag_response(variant, session_id, ans)
              IN /\ session_id' = adopt_session(variant, r.sid)
                 /\ messages' = extend(messages, user_input, r.text)
                 /\ prevTurn' = lastTurn
                 /\ lastTurn' = [req |-> req, outcome |-> ans.outcome,
                                 returned |-> ans.returned]
                 /\ issued' = IF ans.outcome = "ok" /\ ans.returned # Absent
                               THEN issued \cup {ans.returned} ELSE issued
    /\ UNCHANGED <<variant, uploadVars, pollVars, raceVars>>

NextChat == ChatTurn

SpecChat == InitChat /\ [][NextChat]_vars

\* ------------------------------------------------- two sessions, one store
\* Each browser session runs the script on its own; the sessions share the
\* manifest object only. A session loads the manifest (Auto 202, at the
\* start of its pass; latest 54, inside update_manifest) and later
\* overwrites the object with what it loaded plus its own entry (Auto 74-75,
\* latest 55-64); the other session's S3 calls can fall in between.
OtherWrote(w) ==
    \E o \in Writers \ {w} : writers[o].pc = "done" /\ writers[o].putOut = "ok"

WriterLoad(w) ==
    /\ writers[w].pc = "idle"
    /\ \E filename \in FileNames(variant), getOut \in GetOutcomes(stored) :
         LET dl == download_manifest(stored, getOut)
         IN /\ variant = "Auto" => ~is_in_manifest(filename, dl.manifest)
            /\ writers' = [writers EXCEPT ![w] =
                  [pc |-> "loaded", filename |-> filename,
                   held |-> dl.manifest, getOut |-> getOut,
                   putOut |-> "none", sawOther |-> OtherWrote(w),
                   order |-> 0]]
    /\ UNCHANGED <<variant, uploadVars, pollVars, chatVars>>

WriterPut(w) ==
    /\ writers[w].pc = "loaded"
    /\ \E putOut \in PutOutcomes :
         LET me == writers[w]
             after ==
               IF variant = "Auto"
               THEN add_to_manifest(stored, me.filename, me.held, putOut).store
               ELSE update_store(stored, [manifest |-> me.held, err |-> <<>>],
                                 me.filename, now, putOut).store
         IN /\ stored' = after
            /\ writers' = [writers EXCEPT ![w] =
                  [me EXCEPT !.pc = "done", !.putOut = putOut,
                             !.order = 1 + Cardinality(
                                 {o \in Writers : writers[o].pc = "done"})]]
    /\ UNCHANGED <<variant, now, passes, pc, uploaded_files, idx, file_bytes,
                   notices, manifest, text, calls, report, loaded, observed,
                   lastRecord, loadOut, failedBefore, reruns>>
    /\ UNCHANGED <<pollVars, chatVars>>

NextRace ==
    \/ \E w \in Writers : WriterLoad(w)
    \/ \E w \in Writers : WriterPut(w)

SpecRace == Init /\ [][NextRace]_vars

\* ================================================================ claims
\* the stored manifest as a successful load() returns it
Load == parse(stored.body)

\* the name of the file of Subject
SubjectName == uploaded_files[Subject]

HasSubject == Subject >= 1 /\ Subject <= Len(uploaded_files)

\* the state right after a record() call whose write went through
JustRecorded == Finished /\ lastRecord.path # "none" /\ lastRecord.putOut = "ok"

\* C1: in every upload pass, a file whose filename is in the manifest loaded
\* for that pass causes no OCR call, no text save, no start-job, no
\* create-document, no status poll and no manifest write, and is reported as
\* already ingested.
C1_Idempotent ==
    (HasSubject /\ SubjectName \in loaded) =>
        /\ calls = NoCalls
        /\ observed = "none"
        /\ lastRecord = NoRecord
        /\ pc \in {"check", "idle"}
        /\ report = <<"already">>

C1_Witness ==
    /\ Finished
    /\ SubjectName \in loaded
    /\ report = <<"already">>

\* C9: a direct submission rejected with "document already exists" is
\* reported as success, is followed by no second submission and no polling,
\* and by exactly one record() call, which (when its write goes through)
\* leaves as last manifest entry one for the filename with the fields
\* filename, ingested_at, status and the status INGESTED, as the record() of
\* a normal successful ingestion does.
IngestedEntry(e, filename) ==
    /\ DOMAIN e = {"filename", "ingested_at", "status"}
    /\ e.filename = filename
    /\ e.status = "INGESTED"
    /\ e.ingested_at # ""

LastEntryIngested ==
    /\ Len(Load) > 0
    /\ IngestedEntry(Load[Len(Load)], SubjectName)

C9_ConflictIsSuccess ==
    /\ observed = "conflict" =>
         /\ calls.create = 1
         /\ calls.poll = 0
         /\ (~Finished => pc = "record_conflict" /\ calls.record = 0)
         /\ (Finished =>
               /\ calls.record = 1
               /\ lastRecord.path = "conflict"
               /\ report[Len(report)] = "success")
    /\ (variant = "latest" /\ JustRecorded) => LastEntryIngested

C9_Witness ==
    /\ observed = "conflict"
    /\ JustRecorded
    /\ lastRecord.path = "conflict"
    /\ LastEntryIngested

\* C10: the processing of a file whose ingestion reached terminal success
\* (the polling call returned success, or the submission met the "already
\* exists" conflict) makes exactly one record() call, and the processing of
\* a file that ended in failure makes none.
Succeeded == observed \in {"success", "conflict"}

EntriesFor(m, filename) == {k \in 1..Len(m) : m[k].filename = filename}

C2_RoundTrip ==
    JustRecorded =>
        /\ Cardinality(EntriesFor(Load, SubjectName)) = 1
        /\ \A k \in EntriesFor(Load, SubjectName) :
             IngestedEntry(Load[k], SubjectName)

\* C3: a filename that has an entry in the stored manifest has
\* one in every later state of the stored manifest.
StoredNames == manifest_names(Load)

C3_NeverRemoved == [][StoredNames \subseteq StoredNames']_vars

\* C4: no two entries of the stored manifest have the same
\* filename.
C4_UniqueFilenames ==
    \A j, k \in 1..Len(Load) : j # k => Load[j].filename # Load[k].filename

\* C5: OCR is invoked only for a file that is not empty and not
\* above the ceiling of its type (5 MiB for a PDF, 10 MiB for an image).
WithinCeiling(file) ==
    LET ext == lower(splitext(file.name)[2])
    IN /\ file.size # 0
       /\ (ext = ".pdf" => file.size <= 5 * 1024 * 1024)
       /\ (ext \in IMAGE_EXTENSIONS => file.size <= 10 * 1024 * 1024)

C5_ValidatedBeforeOcr ==
    (calls.ocr > 0 /\ file_bytes # Unread) =>
        WithinCeiling([name |-> SubjectName, size |-> file_bytes])

\* C6, with COMPLETED as the one success status of a sync job: when the
\* first terminal status is the k-th and comes
\* before the deadline, polling returns after exactly k requests, with
\* success iff that status is COMPLETED (sync job) or INGESTED (document),
\* and with failure iff it is FAILED/STOPPED (sync job) or FAILED/DELETED
\* (document).
BeforeDeadline == (script.k - 1) * SLEEP <= timeout

ClaimedSuccess(v) == IF v = "Auto" THEN "COMPLETED" ELSE "INGESTED"

C6_PollResult_Original ==
    (pollPc # "off" /\ script.t # "raise" /\ BeforeDeadline) =>
        /\ polls <= script.k
        /\ pollPc = "returned" =>
             /\ polls = script.k
             /\ result <=> (status = ClaimedSuccess(variant))
             /\ ~result <=> (status \in FailureStatuses(variant))

\* C6: when the first terminal status is the k-th and comes before
\* the deadline, polling returns after exactly k requests, with success iff
\* that status is a success status (COMPLETED or COMPLETE for a sync job,
\* INGESTED for a document) and with failure iff it is FAILED/STOPPED (sync
\* job) or FAILED/DELETED (document).
C6_PollResult ==
    (pollPc # "off" /\ script.t # "raise" /\ BeforeDeadline) =>
        /\ polls <= script.k
        /\ pollPc # "raised"
        /\ pollPc = "returned" =>
             /\ polls = script.k
             /\ status = script.t
             /\ result <=> (status \in IF variant = "Auto"
                                       THEN {"COMPLETED", "COMPLETE"}
                                       ELSE {"INGESTED"})
             /\ ~result <=> (status \in IF variant = "Auto"
                                        THEN {"FAILED", "STOPPED"}
                                        ELSE {"FAILED", "DELETED"})

\* RUNNING, RUNNING, COMPLETED: success after exactly 3 polls
C6_Witness ==
    /\ variant = "Auto"
    /\ script = [k |-> 3, t |-> "COMPLETED"]
    /\ pollPc = "returned"
    /\ polls = 3
    /\ result

\* C7: when the service answers every status request with a non-terminal
\* status, polling eventually returns failure, and only once more than the
\* timeout has elapsed; and no error of a status request ever escapes from
\* the polling function.
NeverTerminal == pollPc # "off" /\ script.k > LastPoll

C7_PollTerminates ==
    /\ [](pollPc # "raised")
    /\ [](NeverTerminal /\ pollPc = "returned" => ~result /\ elapsed > timeout)
    /\ NeverTerminal ~> (pollPc = "returned" /\ ~result /\ elapsed > timeout)

C7_Witness ==
    /\ NeverTerminal
    /\ pollPc = "returned"
    /\ ~result
    /\ elapsed > timeout
    /\ polls = LastPoll

\* C8: the request of a chat turn carries the session id the
\* service returned in the turn before when that turn succeeded, and carries
\* no session id when the turn before failed with "session id not valid".
C8_SessionContinuity ==
    /\ (prevTurn.outcome = "ok" /\ prevTurn.returned \in ServiceSessions) =>
         lastTurn.req = prevTurn.returned
    /\ prevTurn.outcome = "session_invalid" => lastTurn.req = Absent

\* the fixed fallback text of a failed query: Auto 184, latest 163,
\* secrets 99
Fallback(v) == IF v = "secrets" THEN "sorry_error" ELSE "consult_physician"

\* C11: a chat turn whose query fails with an error other than "session id
\* not valid" answers with the fixed fallback message and leaves the stored
\* session id as it was before the turn, so the next query carries the same
\* session id as the failed one did.
C11_ErrorKeepsSession ==
    /\ [][lastTurn'.outcome = "other_error" =>
             /\ session_id' = session_id
             /\ messages'[Len(messages')] =
                  [role |-> "assistant", content |-> Fallback(variant)]]_vars
    /\ [](prevTurn.outcome = "other_error" => lastTurn.req = prevTurn.req)

\* a query failed while the conversation held a session id of the service,
\* and the turn after it was made
C11_Witness ==
    /\ prevTurn.outcome = "other_error"
    /\ prevTurn.req \in ServiceSessions
    /\ lastTurn.req = prevTurn.req
    /\ lastTurn.outcome = "ok"

\* the file of Subject was stopped by the pre-validation of the upload loop
RejectedByValidation ==
    /\ variant = "Auto"
    /\ Len(report) = 1
    /\ report[1] \in {"unsupported", "empty", "pdf_too_large", "image_too_large"}

\* the file of Subject was recorded earlier in this same pass
RecordedThisPass ==
    /\ variant = "Auto"
    /\ report = <<"already">>
    /\ is_in_manifest(SubjectName, manifest)

\* C12: the manifest load of a pass never raises; a missing manifest object
\* gives the empty manifest and no error message; any other failure of the
\* load gives the empty manifest and one error message; and after either the
\* pass goes on to attempt the ingestion of each file: every file it has
\* finished was sent to OCR, unless validation rejected it or the pass itself
\* had recorded the same name before.
C12_LoadFailsSoft ==
    /\ pc # "crashed"
    /\ passes > 0 => loadOut \in {"ok", "NoSuchKey", "error"}
    /\ loadOut = "NoSuchKey" => loaded = {} /\ notices = <<>>
    /\ loadOut = "error" =>
         loaded = {} /\ notices = <<"manifest_download_error">>
    /\ (loadOut \in {"NoSuchKey", "error"} /\ Finished) =>
         \/ calls.ocr = 1
         \/ RejectedByValidation
         \/ RecordedThisPass

\* the stored manifest lists a.pdf, its download failed, and a.pdf went to
\* OCR all the same
C12_Witness ==
    /\ loadOut = "error"
    /\ notices = <<"manifest_download_error">>
    /\ Finished
    /\ SubjectName \in StoredNames
    /\ calls.ocr = 1

\* the causes a message shown to the operator names: the st.error texts of
\* Auto 206-223, 104-107, 234, 93, 120, 137, 141, 145, 260 and of latest 82,
\* 104, 113, 134
Names(msg) ==
    CASE msg \in {"unsupported", "empty", "pdf_too_large", "image_too_large"}
           -> {"validation"}
      [] msg \in {"textract_error", "ocr_failed"} -> {"ocr"}
      [] msg = "save_error" -> {"save"}
      [] msg \in {"start_error", "ingestion_failed"} -> {"submission"}
      [] msg = "job_failed_or_stopped" -> {"failed_status"}
      [] msg = "job_timed_out" -> {"timeout"}
      [] msg = "status_error" -> {"status_error"}
      [] msg = "ingestion_failed_or_timed_out" -> {"failed_status", "timeout"}
      [] OTHER -> {}

\* C13: the messages shown for a file that ended in failure
\* name its cause among validation failure, OCR failure, submission failure,
\* polling timeout and a failure status reported by the service; a timeout is
\* never reported in the words of a reported failure status.
C13_CauseReported ==
    FailureCause \in {"validation", "ocr", "submission", "timeout",
                      "failed_status"} =>
        \E i \in 1..Len(report) : Names(report[i]) = {FailureCause}

\* both sessions have completed their record() with every S3 call answered,
\* for two different filenames neither of which was in the manifest it loaded
BothRecorded ==
    /\ \A w \in Writers :
         /\ writers[w].pc = "done"
         /\ writers[w].putOut = "ok"
         /\ writers[w].getOut \in {"ok", "NoSuchKey"}
         /\ writers[w].filename \notin manifest_names(writers[w].held)
    /\ \A w, o \in Writers : w # o => writers[w].filename # writers[o].filename

FirstWriter == CHOOSE w \in Writers : writers[w].order = 1

LastWriter == CHOOSE w \in Writers : writers[w].order = 2

\* C14: record() is not atomic. When two sessions have each completed
\* load-append-overwrite for different filenames, the entry of the session
\* that wrote last is stored, and the entry of the session that wrote first is
\* stored exactly when the last writer loaded the manifest after the first
\* one's write; when it loaded before, the first entry is lost.
C14_LostUpdate ==
    BothRecorded =>
        /\ writers[LastWriter].filename \in StoredNames
        /\ writers[FirstWriter].filename \in StoredNames
             <=> writers[LastWriter].sawOther

\* both record() calls completed and the first writer's entry is missing
C14_Witness ==
    /\ BothRecorded
    /\ ~writers[LastWriter].sawOther
    /\ writers[FirstWriter].filename \notin StoredNames
    /\ writers[LastWriter].filename \in StoredNames

\* the stages of the pipeline, for the file of Subject
Submitted == calls.start + calls.create > 0

Recording == calls.record > 0 \/ pc \in {"record", "record_conflict"}

FailureShown == \E i \in 1..Len(report) : Names(report[i]) # {}

\* C15: for every file, the manifest entry is written only
\* after a terminal success status of its job or document was observed; a
\* submission is made only after OCR returned text; the sync job is started
\* only after the text was stored; OCR is invoked only after validation
\* passed; and no stage runs after an earlier stage of the file failed.
C15_PipelineOrder ==
    /\ Recording => observed = "success"
    /\ Submitted => calls.ocr = 1 /\ text # ""
    /\ calls.start > 0 =>
         calls.save = 1 /\ \E i \in 1..Len(report) : report[i] = "text_saved"
    /\ (calls.ocr > 0 /\ file_bytes # Unread) =>
         /\ lower(splitext(SubjectName)[2]) \in ALLOWED_EXTENSIONS
         /\ WithinCeiling([name |-> SubjectName, size |-> file_bytes])
    /\ FailureShown => Finished
    /\ \A stage \in {"ocr", "save", "start", "create", "record"} :
         calls[stage] <= 1

PassDone == pc = "idle" /\ idx = Len(uploaded_files) + 1

\* how far the pass has come: the files behind it, then the stage of the
\* file it is working on
StageRank ==
    CASE pc = "ocr" -> 1
      [] pc = "save" -> 2
      [] pc \in {"start", "create"} -> 3
      [] pc = "wait" -> 4
      [] pc \in {"record", "record_conflict"} -> 5
      [] OTHER -> 0

Progress == 6 * idx + StageRank

\* C16: a failure of a file at any stage (validation, OCR, text save,
\* submission, polling, manifest write) does not stop the pass: no error
\* terminates it, the step that shows a failure moves the loop to the next
\* file of the batch, the loop leaves no file out, a pass that is under way
\* can always take its next step and every step brings it nearer to the end
\* of the batch, where alone it stops.
C16_FailureIndependence ==
    /\ [](pc # "crashed")
    /\ [](pc # "idle" => ENABLED Next)
    /\ [](pc = "idle" /\ passes > 0 => PassDone)
    /\ [][idx' # idx => idx' = idx + 1 \/ idx' = 1]_vars
    /\ [][passes' = passes => Progress' > Progress]_vars
    /\ [][(FailureShown' /\ report' # report) =>
            /\ idx' = idx + 1
            /\ pc' = IF idx' > Len(uploaded_files) THEN "idle" ELSE "check"]_vars

\* the first file of a batch was not skipped and ended with no entry in the
\* stored manifest, and the file after it was sent to OCR
C16_Witness ==
    /\ Len(uploaded_files) = 2
    /\ Subject = 2
    /\ calls.ocr = 1
    /\ uploaded_files[1] \notin loaded
    /\ uploaded_files[1] \notin StoredNames

\* C17: a file whose pipeline ended in failure causes no
\* further OCR call and no further ingestion call unless the operator
\* uploads it again: none in the same pass, and none when a chat turn
\* re-executes the script while the file is still selected.
C17_NoAutomaticRetry ==
    /\ calls.ocr <= 1
    /\ calls.start + calls.create <= 1
    /\ (\E f \in failedBefore : f.i = Subject) =>
         calls.ocr = 0 /\ calls.start + calls.create = 0

\* C18: the stored session id is empty or null from the start
\* of the conversation until the service has returned one; the first query
\* carries no session id; and every session id sent in a request was
\* returned by the service earlier in the conversation.
C18_SessionFromService ==
    /\ [](issued = {} => session_id \in {None, ""})
    /\ [][messages = <<>> => lastTurn'.req = Absent]_vars
    /\ [][lastTurn'.req \in issued \cup {Absent}]_vars

\* the role the k-th entry of a transcript must have
RoleAt(k) == IF k % 2 = 1 THEN "user" ELSE "assistant"

\* C19: every chat turn, whether its query succeeded or failed, appends
\* exactly two entries to the transcript, the user message and then the
\* assistant response, and changes no earlier entry; the transcript always has
\* even length with roles alternating user, assistant, and never gets
\* shorter.
C19_TranscriptAppendOnly ==
    /\ [](/\ Len(messages) % 2 = 0
          /\ \A k \in 1..Len(messages) : messages[k].role = RoleAt(k))
    /\ [][Len(messages') >= Len(messages)]_vars
    /\ [][lastTurn' # lastTurn \/ prevTurn' # prevTurn
           \/ session_id' # session_id \/ messages' # messages =>
            /\ Len(messages') = Len(messages) + 2
            /\ SubSeq(messages', 1, Len(messages)) = messages
            /\ messages'[Len(messages) + 1].role = "user"
            /\ messages'[Len(messages) + 1].content \in UserInputs
            /\ messages'[Len(messages) + 2].role = "assistant"]_vars

\* a failed turn and a successful turn have both been appended
C19_Witness ==
    /\ Len(messages) = 4
    /\ prevTurn.outcome \in {"other_error", "session_invalid"}
    /\ lastTurn.outcome = "ok"
    /\ messages[2].content # "answer"
    /\ messages[4].content = "answer"

\* the pass told the operator that the file of Subject was ingested
ReportedSuccess ==
    /\ Finished
    /\ Len(report) > 0
    /\ report[Len(report)] = "success"

\* C20: whenever the pass reports a file as successfully
\* ingested, the stored manifest has an entry for that filename at the end of
\* the file's processing, also when the download or the overwrite inside
\* record() failed.
C20_SuccessImpliesRecorded ==
    ReportedSuccess => SubjectName \in StoredNames

\* C21: in polling a terminal status takes precedence over the deadline: a
\* success status fetched by a poll made after the timeout has elapsed is
\* returned as success, a failure status as failure, and the timeout failure
\* is returned only on a poll whose status is not terminal; with the 5 s
\* interval and the 600 s timeout at most 122 status requests are made.
C21_StatusBeforeDeadline ==
    /\ polls <= 122
    /\ pollPc = "returned" =>
         /\ status \in (IF variant = "Auto" THEN {"COMPLETED", "COMPLETE"}
                        ELSE {"INGESTED"}) => result
         /\ (~result /\ status # "raise"
              /\ status \notin (IF variant = "Auto" THEN {"FAILED", "STOPPED"}
                                ELSE {"FAILED", "DELETED"})) =>
               /\ status \in NonTerminal(variant)
               /\ elapsed > timeout
         /\ (variant = "Auto" /\ pollMsgs = <<"job_timed_out">>) =>
               status \in NonTerminal(variant)

\* the 122nd poll, made 605 s after the start, fetched a success status
C21_Witness ==
    /\ pollPc = "returned"
    /\ polls = 122
    /\ elapsed > timeout
    /\ script.k = 122
    /\ status \in {"COMPLETED", "INGESTED"}
    /\ result

\* C22: in the indirect variant a document for which OCR returns empty
\* text is treated as an OCR failure: its iteration ends with the "OCR
\* failed" message, no text object is stored, no sync job is started and no
\* manifest entry is written, as when the OCR call itself errors.
C22_EmptyTextIsOcrFailure ==
    (variant = "Auto" /\ calls.ocr = 1 /\ text = "") =>
        /\ Finished
        /\ report[Len(report)] = "ocr_failed"
        /\ FailureCause = "ocr"
        /\ calls.save = 0
        /\ calls.start = 0
        /\ calls.poll = 0
        /\ calls.record = 0
        /\ lastRecord = NoRecord

\* OCR answered without an error and without text: "OCR failed" is the only
\* message of the file
C22_Witness ==
    /\ variant = "Auto"
    /\ Finished
    /\ calls.ocr = 1
    /\ text = ""
    /\ report = <<"ocr_failed">>
    /\ calls.save = 0

====
